---- MODULE Spec2Model ----
(***************************************************************************)
(* Model of src/lib/mmgblcflow.py: the multi-scale normalizing flow        *)
(* MMGbLcFlow (construction, forward, inverse) and the MMGbLc backbone     *)
(* (block, stage, network).  Tensors are modelled for one sample of the    *)
(* batch: a shape <<c, h, w>> and the elements in row-major order.         *)
(***************************************************************************)
EXTENDS Integers, Sequences, FiniteSets, TLC

\* ---------------------------------------------------------------- bounds
MaxC == 1        \* largest channel count of an input
MaxHW == 16      \* largest height / width of an input
MaxSkew == 2     \* largest difference between height and width of an input
MaxLen == 3      \* largest length of n_blocks
MaxBlocks == 1   \* largest entry of n_blocks
MaxSeed == 0     \* number of extra input tensors tried per shape
MaxStages == 2   \* largest number of stages of an MMGbLc network
MaxDepth == 2    \* largest depth of a stage
MaxCh == 2       \* largest channel count / embedding width of the network
MaxClasses == 1  \* largest num_classes
MaxNetHW == 1    \* largest height (= width) of a network input
MaxV == 4        \* largest length of vnorms
MaxK == 3        \* largest number of entries of kernels

VARIABLES
    pc,                   \* position of the flow object / current call
    input_size,           \* constructor argument (n, c, h, w)
    n_blocks,             \* self.n_blocks
    factor_out,           \* self.factor_out
    classification,       \* self.classification
    n_scale,              \* self.n_scale
    transforms,           \* self.transforms: one record per transform group
    dims,                 \* self.dims
    classification_heads, \* self.classification_heads: input channels per head
    x,                    \* forward: the running tensor
    x_in,                 \* forward: the tensor the call was given
    logpx,                \* forward: the accumulator argument
    classify,             \* forward: the classify argument
    idx,                  \* loop index of forward / inverse
    out,                  \* forward: list of emitted pieces
    f,                    \* forward: the local f (unbound until first split)
    class_outs,           \* forward: head applications
    calls,                \* history of group calls
    gins,                 \* history: shape that reached each group
    gouts,                \* history: tensor each group returned
    result,               \* forward: returned value
    zs,                   \* inverse: the per-scale pieces
    z_prev,               \* inverse: the running tensor
    logpz,                \* inverse: the accumulator argument
    iresult,              \* inverse: returned value
    npc,                  \* position of the MMGbLc object / current call
    depths,               \* MMGbLc constructor argument
    channels,             \* MMGbLc constructor argument
    gp_arg,               \* MMGbLc constructor argument global_pool
    nc_arg,               \* MMGbLc constructor argument num_classes
    embed_dim,            \* MMGbLc constructor argument
    in_channels,          \* MMGbLc constructor argument
    num_classes,          \* self.num_classes
    stem,                 \* self.stem
    stages,               \* self.stages
    global_pool,          \* self.global_pool
    head,                 \* self.head
    act,                  \* MMGbLc.forward: shape of the running tensor
    si,                   \* MMGbLc.forward: stage index
    bi,                   \* MMGbLc.forward: block index inside the stage
    mi,                   \* MMGbLc.forward: sub-module index inside the block
    trace,                \* history of the modules applied
    modules,              \* names of the registered sub-modules (self._modules)
    last_reset,           \* the latest reset_classifier call and its outcome
    nwd,                  \* the latest result of no_weight_decay
    bpc,                  \* position of the flow whose groups are built in detail
    bargs,                \* its constructor arguments
    b_n_scale,            \* its self.n_scale
    b_i,                  \* loop index of _build_net
    b_transforms,         \* the groups built so far, each with its chain
    b_chain               \* chain of the group whose construction raised

flowvars == <<pc, input_size, n_blocks, factor_out, classification, n_scale,
              transforms, dims, classification_heads, x, x_in, logpx, classify,
              idx, out, f, class_outs, calls, gins, gouts, result, zs, z_prev,
              logpz, iresult>>

netvars == <<npc, depths, channels, gp_arg, nc_arg, embed_dim, in_channels,
             num_classes, stem, stages, global_pool, head, act, si, bi, mi, trace,
             modules, last_reset, nwd>>

buildvars == <<bpc, bargs, b_n_scale, b_i, b_transforms, b_chain>>

vars == <<flowvars, netvars, buildvars>>

\* ------------------------------------------------------------- helpers
Min(a, b) == IF a < b THEN a ELSE b

RECURSIVE Pow(_, _)
Pow(b, e) == IF e = 0 THEN 1 ELSE b * Pow(b, e - 1)

Prod(s) == s[1] * s[2] * s[3]

RECURSIVE SumProd(_)
SumProd(ds) == IF ds = <<>> THEN 0 ELSE Prod(Head(ds)) + SumProd(Tail(ds))

RECURSIVE Flatten(_)
Flatten(ts) == IF ts = <<>> THEN <<>> ELSE Head(ts).data \o Flatten(Tail(ts))

Unset == [set |-> FALSE]
NoTensor == [shape |-> <<0, 0, 0>>, data |-> <<>>]
NoLogp == [given |-> FALSE, val |-> 0]
NoResult == [done |-> FALSE]

\* ------------------------------------------------ construction (pure parts)
RECURSIVE CalcNScaleLoopOr(_, _, _)
CalcNScaleLoopOr(h, w, n) ==
    IF h >= 4 \/ w >= 4 THEN CalcNScaleLoopOr(h \div 2, w \div 2, n + 1) ELSE n

RECURSIVE CalcNScaleLoop(_, _, _)
CalcNScaleLoop(h, w, n) ==
    IF h >= 4 /\ w >= 4 THEN CalcNScaleLoop(h \div 2, w \div 2, n + 1) ELSE n

_calc_n_scale(isz) == CalcNScaleLoop(isz[3], isz[4], 0)

RECURSIVE BuildNetLoopQuad(_, _, _, _, _, _, _)
BuildNetLoopQuad(i, ns, nb, fo, c, h, w) ==
    IF i >= ns THEN <<>>
    ELSE <<[initial_size |-> <<c, h, w>>,
            squeeze |-> (i < ns - 1),
            init_layer |-> (i = 0),
            n_blocks |-> nb[i + 1]]>>
         \o BuildNetLoopQuad(i + 1, ns, nb, fo, c * 4, h \div 2, w \div 2)

RECURSIVE BuildNetLoopSqueezeAll(_, _, _, _, _, _, _)
BuildNetLoopSqueezeAll(i, ns, nb, fo, c, h, w) ==
    IF i >= ns THEN <<>>
    ELSE <<[initial_size |-> <<c, h, w>>,
            squeeze |-> TRUE,
            init_layer |-> (i = 0),
            n_blocks |-> nb[i + 1]]>>
         \o BuildNetLoopSqueezeAll(i + 1, ns, nb, fo, IF fo THEN c * 2 ELSE c * 4, h \div 2, w \div 2)

RECURSIVE BuildNetLoop(_, _, _, _, _, _, _)
BuildNetLoop(i, ns, nb, fo, c, h, w) ==
    IF i >= ns THEN <<>>
    ELSE <<[initial_size |-> <<c, h, w>>,
            squeeze |-> (i < ns - 1),
            init_layer |-> (i = 0),
            n_blocks |-> nb[i + 1]]>>
         \o BuildNetLoop(i + 1, ns, nb, fo, IF fo THEN c * 2 ELSE c * 4, h \div 2, w \div 2)

_build_net(isz, ns, nb, fo) == BuildNetLoop(0, ns, nb, fo, isz[2], isz[3], isz[4])

RECURSIVE CalcOutLoopAll(_, _, _, _, _)
CalcOutLoopAll(i, ns, c, h, w) ==
    IF i >= ns THEN <<>>
    ELSE <<<<c * 2, h \div 2, w \div 2>>>> \o CalcOutLoopAll(i + 1, ns, c * 2, h \div 2, w \div 2)

RECURSIVE CalcOutLoop(_, _, _, _, _)
CalcOutLoop(i, ns, c, h, w) ==
    IF i >= ns THEN <<>>
    ELSE IF i < ns - 1
         THEN <<<<c * 2, h \div 2, w \div 2>>>> \o CalcOutLoop(i + 1, ns, c * 2, h \div 2, w \div 2)
         ELSE <<<<c, h, w>>>> \o CalcOutLoop(i + 1, ns, c, h, w)

\* the shapes o[1:] of calc_output_size(input_size)
calc_output_size(isz, ns, fo) ==
    IF ~fo
    THEN LET k == ns - 1
         IN <<<<isz[2] * Pow(4, k), isz[3] \div Pow(2, k), isz[4] \div Pow(2, k)>>>>
    ELSE CalcOutLoop(0, ns, isz[2], isz[3], isz[4])

RECURSIVE HiddenShapesLoop(_, _, _, _, _, _)
HiddenShapesLoop(i, ns, fo, c, h, w) ==
    IF i >= ns THEN <<>>
    ELSE IF i < ns - 1
         THEN LET c2 == c * (IF fo THEN 2 ELSE 4)
              IN <<<<c2, h \div 2, w \div 2>>>> \o HiddenShapesLoop(i + 1, ns, fo, c2, h \div 2, w \div 2)
         ELSE <<<<c, h, w>>>> \o HiddenShapesLoop(i + 1, ns, fo, c, h, w)

\* input channel count of every classification head
build_multiscale_classifier(isz, ns, fo) ==
    LET hs == HiddenShapesLoop(0, ns, fo, isz[2], isz[3], isz[4])
    IN [i \in 1..Len(hs) |-> hs[i][1]]

\* ------------------------------------------------------ tensor operations
\* layers.SqueezeLayer(2): (c, h, w) -> (4c, h/2, w/2), space to depth
Squeeze(t) ==
    LET c == t.shape[1]
        h == t.shape[2]
        w == t.shape[3]
        oh == h \div 2
        ow == w \div 2
    IN [shape |-> <<4 * c, oh, ow>>,
        data |-> [k \in 1..(4 * c * oh * ow) |->
                    LET j == k - 1
                        oc == j \div (oh * ow)
                        r == j % (oh * ow)
                        y2 == r \div ow
                        x2 == r % ow
                        ch == oc \div 4
                        dy == (oc % 4) \div 2
                        dx == oc % 2
                    IN t.data[((ch * h + 2 * y2 + dy) * w + 2 * x2 + dx) + 1]]]

Unsqueeze(t) ==
    LET c4 == t.shape[1]
        oh == t.shape[2]
        ow == t.shape[3]
        c == c4 \div 4
        h == 2 * oh
        w == 2 * ow
    IN [shape |-> <<c, h, w>>,
        data |-> [k \in 1..(c * h * w) |->
                    LET j == k - 1
                        ch == j \div (h * w)
                        r == j % (h * w)
                        y == r \div w
                        xx == r % w
                        oc == ch * 4 + (y % 2) * 2 + (xx % 2)
                    IN t.data[((oc * oh + (y \div 2)) * ow + (xx \div 2)) + 1]]]

\* one invertible block of group i (1-based), element k: v -> 2v + k + i (mod 7)
RECURSIVE BlocksForward(_, _, _)
BlocksForward(i, n, t) ==
    IF n = 0 THEN t
    ELSE BlocksForward(i, n - 1,
            [t EXCEPT !.data = [k \in 1..Len(t.data) |-> (2 * t.data[k] + k + i) % 7]])

RECURSIVE BlocksInverse(_, _, _)
BlocksInverse(i, n, t) ==
    IF n = 0 THEN t
    ELSE BlocksInverse(i, n - 1,
            [t EXCEPT !.data = [k \in 1..Len(t.data) |-> (4 * (t.data[k] + 14 - ((k + i) % 7))) % 7]])

\* StackedMMGbLcBlocks / StackedCouplingBlocks chain: blocks, then the squeeze layer
GroupForward(g, i, t) ==
    LET y == BlocksForward(i, g.n_blocks, t)
    IN IF g.squeeze THEN Squeeze(y) ELSE y

GroupInverse(g, i, t) ==
    LET y == IF g.squeeze THEN Unsqueeze(t) ELSE t
    IN BlocksInverse(i, g.n_blocks, y)

\* log-determinant contribution of group i
GroupLogp(i, lp) == [lp EXCEPT !.val = lp.val - i]
GroupLogpInv(i, lp) == [lp EXCEPT !.val = lp.val + i]

\* x[:, :d] and x[:, d:]
ChanLow(t, d) ==
    [shape |-> <<d, t.shape[2], t.shape[3]>>,
     data |-> SubSeq(t.data, 1, d * t.shape[2] * t.shape[3])]
ChanHigh(t, d) ==
    [shape |-> <<t.shape[1] - d, t.shape[2], t.shape[3]>>,
     data |-> SubSeq(t.data, d * t.shape[2] * t.shape[3] + 1, Len(t.data))]
ChanCatSwapped(a, b) ==
    [shape |-> <<a.shape[1] + b.shape[1], a.shape[2], a.shape[3]>>,
     data |-> b.data \o a.data]

\* torch.cat((a, b), dim=1)
ChanCat(a, b) ==
    [shape |-> <<a.shape[1] + b.shape[1], a.shape[2], a.shape[3]>>,
     data |-> a.data \o b.data]

\* --------------------------------------------------------------- inputs
NBlocksChoices ==
    {[i \in 1..L |-> (i + off) % (MaxBlocks + 1)] : L \in 0..MaxLen, off \in 0..MaxBlocks}

InputSizes ==
    UNION {{<<1, c, h, w>> : c \in 1..MaxC,
                             w \in {v \in 1..MaxHW : v - h <= MaxSkew /\ h - v <= MaxSkew}}
           : h \in 1..MaxHW}

InputTensor(isz, seed) ==
    [shape |-> <<isz[2], isz[3], isz[4]>>,
     data |-> [k \in 1..(isz[2] * isz[3] * isz[4]) |-> (k + seed) % 7]]

\* ----------------------------------------------------------------- Init
\* the object under construction is either a flow or a network
FlowArgs ==
    /\ pc = "new"
    /\ input_size \in InputSizes
    /\ n_blocks \in NBlocksChoices
    /\ factor_out \in BOOLEAN
    /\ classification \in BOOLEAN

FlowOff ==
    /\ pc = "off"
    /\ input_size = <<1, 1, 1, 1>>
    /\ n_blocks = <<>>
    /\ factor_out = FALSE
    /\ classification = FALSE

InitFlow ==
    /\ n_scale = 0
    /\ transforms = Unset
    /\ dims = Unset
    /\ classification_heads = Unset
    /\ x = NoTensor
    /\ x_in = NoTensor
    /\ logpx = NoLogp
    /\ classify = FALSE
    /\ idx = 0
    /\ out = <<>>
    /\ f = Unset
    /\ class_outs = <<>>
    /\ calls = <<>>
    /\ gins = <<>>
    /\ gouts = <<>>
    /\ result = NoResult
    /\ zs = <<>>
    /\ z_prev = NoTensor
    /\ logpz = NoLogp
    /\ iresult = NoResult

\* ------------------------------------------------------ MMGbLc (pure parts)
\* MBConv(in_channels, out_channels, downscale)
MBConv(cin, cout, down) ==
    [in_channels |-> cin, out_channels |-> cout, downscale |-> down]

\* GBTrans(in_channels, partition_function, ...)
GBTrans(cin, part) == [in_channels |-> cin, partition |-> part]

\* MMGbLcBlock.__init__
MMGbLcBlock(cin, cout, down) ==
    [in_channels |-> cin, out_channels |-> cout, downscale |-> down,
     mb_conv |-> MBConv(cin, cout, down),
     block_transformer |-> GBTrans(cout, "window"),
     grid_transformer |-> GBTrans(cout, "grid")]

\* the order in which MMGbLcBlock.forward applies the sub-modules
BlockOrderGridFirst == <<"mb_conv", "grid_transformer", "block_transformer">>

BlockOrder == <<"mb_conv", "block_transformer", "grid_transformer">>

MMGbLcStageAllDown(depth, cin, cout) ==
    [depth |-> depth, in_channels |-> cin, out_channels |-> cout,
     blocks |-> [k \in 1..depth |-> MMGbLcBlock(IF k - 1 = 0 THEN cin ELSE cout, cout, TRUE)]]

\* MMGbLcStage.__init__: the blocks for index in range(depth)
MMGbLcStage(depth, cin, cout) ==
    [depth |-> depth, in_channels |-> cin, out_channels |-> cout,
     blocks |-> [k \in 1..depth |->
                   MMGbLcBlock(IF k - 1 = 0 THEN cin ELSE cout, cout, k - 1 = 0)]]

StageInChannelsOwn(index, ed, chs) == chs[index + 1]

\* in_channels of stage index: embed_dim if index == 0 else channels[index - 1]
StageInChannels(index, ed, chs) == IF index = 0 THEN ed ELSE chs[index]

\* the two assertions at the head of MMGbLc.__init__
CtorAssertsPassLenOnly(ds, chs, gp) == Len(ds) = Len(chs)

CtorAssertsPass(ds, chs, gp) == Len(ds) = Len(chs) /\ gp \in {"avg", "max"}

\* output height / width of a 3x3 convolution with stride 2 and padding 1
Half(h) == ((h - 1) \div 2) + 1

\* shape after a sub-module of a block
ApplyModule(b, m, shp) ==
    IF m = "mb_conv"
    THEN IF b.mb_conv.downscale
         THEN <<b.mb_conv.out_channels, Half(shp[2]), Half(shp[3])>>
         ELSE <<b.mb_conv.out_channels, shp[2], shp[3]>>
    ELSE shp

\* ------------------------------------------------------------ MMGbLc Init
\* depths and channels of any length up to MaxStages, the entries rotating
\* through 0..MaxDepth and 1..MaxCh
DepthsChoices ==
    {[i \in 1..L |-> (i + off) % (MaxDepth + 1)] : L \in 0..MaxStages, off \in 0..MaxDepth}

ChannelsChoices ==
    {[i \in 1..L |-> ((i + off) % MaxCh) + 1] : L \in 0..MaxStages, off \in 0..(MaxCh - 1)}

NetArgs ==
    /\ npc = "new"
    /\ depths \in DepthsChoices
    /\ channels \in ChannelsChoices
    /\ gp_arg \in {"avg", "max", "sum"}
    /\ nc_arg \in 1..MaxClasses
    /\ embed_dim \in 1..MaxCh
    /\ in_channels = 3

NetOff ==
    /\ npc = "off"
    /\ depths = <<>>
    /\ channels = <<>>
    /\ gp_arg = "avg"
    /\ nc_arg = 1
    /\ embed_dim = 1
    /\ in_channels = 3

InitNet ==
    /\ num_classes = Unset
    /\ stem = Unset
    /\ stages = Unset
    /\ global_pool = Unset
    /\ head = Unset
    /\ act = <<>>
    /\ si = 0
    /\ bi = 0
    /\ mi = 0
    /\ trace = <<>>
    /\ modules = {}
    /\ last_reset = [called |-> FALSE, num_classes |-> 0, global_pool |-> "None", err |-> "none"]
    /\ nwd = Unset

\* ------------------------------------- StackedMMGbLcBlocks / StackedCouplingBlocks
\* kernels as a string: k entries separated by '-'
KernelsOf(k) == [j \in 1..(2 * k - 1) |-> IF j % 2 = 0 THEN "-" ELSE IF j = 3 THEN "1" ELSE "3"]

\* vnorms as a string of n characters, ending in 'f'
VnormsOf(n) == [j \in 1..n |-> IF j = n THEN "f" ELSE IF j = 1 THEN "1" ELSE "2"]

\* vnorms with a character that is neither 'f' nor a number
BadVnormsOf(n) == [j \in 1..n |-> IF j = 1 THEN "x" ELSE IF j = n THEN "f" ELSE "2"]

Digits == {"0", "1", "2", "3", "4", "5", "6", "7", "8", "9"}

\* the loop over vnorms: 'f' is inf, float(p) raises ValueError unless p is a number
VnormsParseOk(vn) == \A j \in 1..Len(vn) : vn[j] = "f" \/ vn[j] \in Digits

\* len(kernels.split('-'))
SplitCount(str) == Cardinality({j \in 1..Len(str) : str[j] = "-"}) + 1

\* len(domains) where domains = ps[:-1]
DomainsLen(vn) == IF Len(vn) = 0 THEN 0 ELSE Len(vn) - 1

\* assert len(domains) == len(kernels.split('-'))
VnormsAssertPassPs(vn, ks) == Len(vn) = SplitCount(ks)

VnormsAssertPass(vn, ks) == DomainsLen(vn) = SplitCount(ks)

\* index reads of domains / codomains in build_nnet
ConvReads(nd, k, lp) ==
    LET n == IF lp THEN k ELSE nd
    IN <<[len |-> n, idx |-> 0]>> \o [j \in 1..(k - 2) |-> [len |-> n, idx |-> j]]
       \o <<[len |-> n, idx |-> 0 - 1]>>

\* index reads of domains / codomains in FCNet.__init__ (nhidden = k - 1)
FcReads(nd, k, lp) ==
    (IF lp THEN <<[len |-> nd, idx |-> 0]>> ELSE <<>>)
    \o [j \in 1..(k - 1) |-> [len |-> nd, idx |-> j - 1]]
    \o <<[len |-> nd, idx |-> 0 - 1]>>

\* a Python list index is valid
InRange(r) == (0 - r.len) <= r.idx /\ r.idx < r.len

\* layers of a chain
InitLayer == [kind |-> "init_layer", fc |-> FALSE, first |-> FALSE, preact |-> FALSE,
              swap |-> "na", mask |-> "na", end |-> FALSE]
ActNormLayer(fc) == [kind |-> "actnorm", fc |-> fc, first |-> FALSE, preact |-> FALSE,
                     swap |-> "na", mask |-> "na", end |-> FALSE]
QuadraticLayer(fc) == [kind |-> "quadratic", fc |-> fc, first |-> FALSE, preact |-> FALSE,
                       swap |-> "na", mask |-> "na", end |-> FALSE]
SqueezeLayer == [kind |-> "squeeze", fc |-> FALSE, first |-> FALSE, preact |-> FALSE,
                 swap |-> "na", mask |-> "na", end |-> FALSE]

\* StackedMMGbLcBlocks._mmgblcblock: pre-activation unless first_mmgblcblock (conv) 
MMBlock(a, fc, first, isend) ==
    [kind |-> "block", fc |-> fc, first |-> first,
     preact |-> IF fc THEN a.preact ELSE (~first /\ a.preact),
     swap |-> "na", mask |-> "na", end |-> isend]

\* nonloc_scope.swap = not nonloc_scope.swap, in either branch of _mmgblcblock
ToggleSwapConvOnly(sw, fc) == IF fc THEN sw ELSE ~sw

ToggleSwap(sw, fc) == ~sw

\* StackedCouplingBlocks._mmgblcblock, swap being the value before the toggle
CouplingBlock(a, init, fc, first, isend, sw) ==
    LET nsw == ToggleSwap(sw, fc)
    IN [kind |-> "block", fc |-> fc, first |-> first,
        preact |-> IF fc THEN a.preact ELSE (~first /\ a.preact),
        swap |-> IF nsw THEN "1" ELSE "0",
        mask |-> IF fc THEN "na"
                 ELSE (IF init THEN "checkerboard" ELSE "channel") \o (IF nsw THEN "1" ELSE "0"),
        end |-> isend]

\* the layers before the blocks
HeadLayers(a, init, first) ==
    (IF init THEN <<InitLayer>> ELSE <<>>)
    \o (IF first /\ a.actnorm THEN <<ActNormLayer(a.fc)>> ELSE <<>>)
    \o (IF first /\ a.fc_actnorm THEN <<ActNormLayer(TRUE)>> ELSE <<>>)

\* the layers after a regular block
TailLayers(a) ==
    (IF a.actnorm THEN <<ActNormLayer(a.fc)>> ELSE <<>>)
    \o (IF a.fc_actnorm THEN <<ActNormLayer(TRUE)>> ELSE <<>>)

\* the layers after a fully connected end block
EndTailLayers(a) == IF a.actnorm \/ a.fc_actnorm THEN <<ActNormLayer(TRUE)>> ELSE <<>>

\* fc_nblocks defaults
FcNBlocksMM == 2
FcNBlocksCoupling == 4

\* StackedMMGbLcBlocks: the loop for i in range(n_blocks), both branches
RECURSIVE MMLoop(_, _, _, _)
MMLoop(i, n, a, first) ==
    IF i >= n THEN <<>>
    ELSE (IF a.quadratic THEN <<QuadraticLayer(a.fc)>> ELSE <<>>)
         \o <<MMBlock(a, a.fc, first /\ (i = 0), FALSE)>>
         \o TailLayers(a)
         \o MMLoop(i + 1, n, a, first)

RECURSIVE MMEndLoop(_, _, _)
MMEndLoop(i, n, a) ==
    IF i >= n THEN <<>>
    ELSE <<MMBlock(a, TRUE, FALSE, TRUE)>> \o EndTailLayers(a) \o MMEndLoop(i + 1, n, a)

\* StackedMMGbLcBlocks.__init__ for the group g; first is the flag the flow passes
StackedMMGbLcBlocks(g, a, first) ==
    LET nd == DomainsLen(a.vnorms)
        k == SplitCount(a.kernels)
        pre == HeadLayers(a, g.init_layer /\ a.init_layer, first)
        nend == IF ~g.squeeze /\ a.fc_end THEN FcNBlocksMM ELSE 0
        reads == (IF g.n_blocks > 0
                  THEN IF a.fc THEN FcReads(nd, k, a.learn_p) ELSE ConvReads(nd, k, a.learn_p)
                  ELSE <<>>)
                 \o (IF nend > 0 THEN FcReads(nd, k, a.learn_p) ELSE <<>>)
        full == pre \o MMLoop(0, g.n_blocks, a, first)
                \o (IF g.squeeze THEN <<SqueezeLayer>> ELSE MMEndLoop(0, nend, a))
    IN IF ~VnormsParseOk(a.vnorms)
       THEN [err |-> "ValueError", chain |-> <<>>, reads |-> <<>>]
       ELSE IF ~VnormsAssertPass(a.vnorms, a.kernels)
       THEN [err |-> "AssertionError", chain |-> <<>>, reads |-> <<>>]
       ELSE IF \E j \in 1..Len(reads) : ~InRange(reads[j])
       THEN [err |-> "IndexError",
             chain |-> pre \o (IF g.n_blocks > 0 /\ a.quadratic
                                THEN <<QuadraticLayer(a.fc)>> ELSE <<>>),
             reads |-> reads]
       ELSE [err |-> "none", chain |-> full, reads |-> reads]

\* StackedCouplingBlocks: the loop of the squeeze branch (first flag passed on)
\* and of the other branch (no first flag passed); sw is nonloc_scope.swap
RECURSIVE CouplingLoop(_, _, _, _, _, _, _)
CouplingLoop(i, n, a, init, first, passfirst, sw) ==
    IF i >= n THEN [chain |-> <<>>, swap |-> sw]
    ELSE LET rest == CouplingLoop(i + 1, n, a, init, first, passfirst, ToggleSwap(sw, a.fc))
         IN [chain |-> (IF a.quadratic THEN <<QuadraticLayer(a.fc)>> ELSE <<>>)
                       \o <<CouplingBlock(a, init, a.fc, passfirst /\ first /\ (i = 0), FALSE, sw)>>
                       \o TailLayers(a)
                       \o rest.chain,
             swap |-> rest.swap]

RECURSIVE CouplingEndLoop(_, _, _, _, _)
CouplingEndLoop(i, n, a, init, sw) ==
    IF i >= n THEN <<>>
    ELSE <<CouplingBlock(a, init, TRUE, FALSE, TRUE, sw)>> \o EndTailLayers(a)
         \o CouplingEndLoop(i + 1, n, a, init, ToggleSwap(sw, TRUE))

\* StackedCouplingBlocks.__init__ for the group g
StackedCouplingBlocks(g, a, first) ==
    LET init == g.init_layer /\ a.init_layer
        pre == HeadLayers(a, init, first)
        loop == CouplingLoop(0, g.n_blocks, a, init, first, g.squeeze, TRUE)
        nend == IF ~g.squeeze /\ a.fc_end THEN FcNBlocksCoupling ELSE 0
    IN [err |-> "none",
        chain |-> pre \o loop.chain
                  \o (IF g.squeeze THEN <<SqueezeLayer>>
                      ELSE CouplingEndLoop(0, nend, a, init, loop.swap)),
        reads |-> <<>>]

\* first_mmgblcblock=self.first_mmgblcblock and (i == 0)
GroupFirstFlag(a, i) == a.first_mmgblcblock /\ (i = 0)

\* the secondary flags; none or one of them is set
Secondary == {"quadratic", "actnorm", "fc_actnorm", "preact", "learn_p", "init_layer"}

SecondaryChoices == {{}} \cup {{fl} : fl \in Secondary}

\* square single-channel inputs whose side is a power of two
BuildSizes ==
    {isz \in InputSizes : isz[2] = 1 /\ isz[3] = isz[4]
                           /\ \E k \in 0..isz[3] : Pow(2, k) = isz[3]}

BuildArgsSet ==
    {[input_size |-> isz, n_blocks |-> nb, factor_out |-> TRUE,
      block_type |-> bt, fc_end |-> fe, fc |-> fc, first_mmgblcblock |-> fm,
      quadratic |-> "quadratic" \in on, actnorm |-> "actnorm" \in on,
      fc_actnorm |-> "fc_actnorm" \in on, preact |-> "preact" \in on,
      learn_p |-> "learn_p" \in on, init_layer |-> "init_layer" \in on,
      vnorms |-> IF vk[3] THEN BadVnormsOf(vk[1]) ELSE VnormsOf(vk[1]),
      kernels |-> KernelsOf(vk[2])] :
        isz \in BuildSizes, nb \in NBlocksChoices, bt \in {"mmgblcblock", "coupling"},
        fe \in BOOLEAN, fc \in BOOLEAN, fm \in BOOLEAN,
        on \in SecondaryChoices,
        vk \in {t \in (0..MaxV) \X (1..MaxK) \X BOOLEAN : t[3] => t[1] >= 1 /\ t[2] = 1}}

BuildArgs ==
    /\ bpc = "new"
    /\ bargs \in {a \in BuildArgsSet :
                     a.block_type = "coupling" => a.vnorms = VnormsOf(MaxV) /\ a.kernels = KernelsOf(MaxK)}

BuildOff ==
    /\ bpc = "off"
    /\ bargs = [input_size |-> <<1, 1, 1, 1>>, n_blocks |-> <<>>, factor_out |-> TRUE,
                block_type |-> "mmgblcblock", fc_end |-> TRUE, fc |-> FALSE,
                first_mmgblcblock |-> FALSE, quadratic |-> FALSE, actnorm |-> FALSE,
                fc_actnorm |-> FALSE, preact |-> FALSE, learn_p |-> FALSE,
                init_layer |-> FALSE, vnorms |-> VnormsOf(4), kernels |-> KernelsOf(3)]

InitBuild ==
    /\ b_n_scale = 0
    /\ b_i = 0
    /\ b_transforms = <<>>
    /\ b_chain = <<>>

Init ==
    /\ InitFlow
    /\ InitNet
    /\ InitBuild
    /\ \/ FlowArgs /\ NetOff /\ BuildOff
       \/ FlowOff /\ NetArgs /\ BuildOff
       \/ FlowOff /\ NetOff /\ BuildArgs

\* MMGbLcFlow.__init__ up to the call of _build_net
BuildFlow ==
    /\ bpc = "new"
    /\ LET ns == Min(Len(bargs.n_blocks), _calc_n_scale(bargs.input_size))
       IN /\ b_n_scale' = ns
          /\ bpc' = IF ~(ns > 0) THEN "ValueError" ELSE "groups"
    /\ b_i' = 0
    /\ UNCHANGED <<flowvars, netvars, bargs, b_transforms, b_chain>>

\* MMGbLcFlow._build_net: one iteration, constructing the group b_i
BuildGroup ==
    /\ bpc = "groups"
    /\ b_i < b_n_scale
    /\ LET g == _build_net(bargs.input_size, b_n_scale, bargs.n_blocks, bargs.factor_out)[b_i + 1]
           first == GroupFirstFlag(bargs, b_i)
           r == IF bargs.block_type = "mmgblcblock"
                THEN StackedMMGbLcBlocks(g, bargs, first)
                ELSE StackedCouplingBlocks(g, bargs, first)
       IN IF r.err # "none"
          THEN /\ bpc' = r.err
               /\ b_chain' = r.chain
               /\ UNCHANGED <<b_i, b_transforms>>
          ELSE /\ b_transforms' = Append(b_transforms,
                      [args |-> g, first |-> first, chain |-> r.chain, reads |-> r.reads])
               /\ b_i' = b_i + 1
               /\ UNCHANGED <<bpc, b_chain>>
    /\ UNCHANGED <<flowvars, netvars, bargs, b_n_scale>>

\* MMGbLcFlow._build_net: return nn.ModuleList(transforms)
BuildDone ==
    /\ bpc = "groups"
    /\ b_i = b_n_scale
    /\ bpc' = "done"
    /\ UNCHANGED <<flowvars, netvars, bargs, b_n_scale, b_i, b_transforms, b_chain>>

netcall == <<act, si, bi, mi, trace, last_reset, nwd>>
netfwd == <<last_reset, nwd>>
netargs == <<depths, channels, gp_arg, nc_arg, embed_dim, in_channels>>
netself == <<num_classes, stem, stages, global_pool, head, modules>>

\* what the constructor assigns to each attribute: self.stages is a Python list
AttrKind == [stem |-> "Sequential", stages |-> "list", head |-> "Linear"]

\* nn.Module.__setattr__ registers an attribute only if its value is a Module
IsModule(kind) == kind \in {"Sequential", "ModuleList", "Linear", "Identity"}

Registered(names) == {n \in names : IsModule(AttrKind[n])}

\* self.num_features is read by reset_classifier and assigned nowhere
num_features == Unset

Linear(inf, outf) == [set |-> TRUE, kind |-> "Linear", in_features |-> inf, out_features |-> outf]

Identity == [set |-> TRUE, kind |-> "Identity", in_features |-> 0, out_features |-> 0]

\* parameter names, one record per dotted name
PName(m, s, b, sub, p) == [mod |-> m, stage |-> s, block |-> b, sub |-> sub, param |-> p]

StemParams == {PName("stem", 0 - 1, 0 - 1, c, p) : c \in {"0", "2"}, p \in {"weight", "bias"}}

HeadParams(h) ==
    IF h.set /\ h.kind = "Linear"
    THEN {PName("head", 0 - 1, 0 - 1, "", p) : p \in {"weight", "bias"}}
    ELSE {}

\* the parameters of the stages: every attention owns a relative position bias table
StageParams(st) ==
    IF ~st.set THEN {}
    ELSE UNION {UNION {{PName("stages", s - 1, b - 1, "mb_conv", "weight"),
                        PName("stages", s - 1, b - 1, "block_transformer",
                              "relative_position_bias_table"),
                        PName("stages", s - 1, b - 1, "grid_transformer",
                              "relative_position_bias_table")} :
                       b \in 1..Len(st.v[s].blocks)} : s \in 1..Len(st.v)}

\* every parameter of the objects the network holds
AllParams(st, h) == StemParams \cup StageParams(st) \cup HeadParams(h)

\* nn.Module.named_parameters: the parameters of the registered sub-modules
named_parameters(mods, st, h) ==
    (IF "stem" \in mods THEN StemParams ELSE {})
    \cup (IF "stages" \in mods THEN StageParams(st) ELSE {})
    \cup (IF "head" \in mods THEN HeadParams(h) ELSE {})

\* MMGbLc.no_weight_decay
no_weight_decay(mods, st, h) ==
    {n \in named_parameters(mods, st, h) : n.param = "relative_position_bias_table"}

\* MMGbLc.__init__
NetConstruct ==
    /\ npc = "new"
    /\ IF ~CtorAssertsPass(depths, channels, gp_arg)
       THEN /\ npc' = "AssertionError"
            /\ UNCHANGED netself
       ELSE /\ num_classes' = [set |-> TRUE, v |-> nc_arg]
            /\ stem' = [set |-> TRUE, in_channels |-> in_channels, out_channels |-> embed_dim]
            /\ stages' = [set |-> TRUE,
                          v |-> [k \in 1..Min(Len(depths), Len(channels)) |->
                                   MMGbLcStage(depths[k],
                                               StageInChannels(k - 1, embed_dim, channels),
                                               channels[k])]]
            /\ global_pool' = [set |-> TRUE, v |-> gp_arg]
            /\ IF Len(channels) = 0
               THEN /\ npc' = "IndexError"
                    /\ modules' = Registered({"stem", "stages"})
                    /\ UNCHANGED head
               ELSE /\ npc' = "built"
                    /\ modules' = Registered({"stem", "stages", "head"})
                    /\ head' = Linear(channels[Len(channels)], nc_arg)
    /\ UNCHANGED <<buildvars, flowvars, netargs, netcall>>

\* MMGbLc.forward: entry and the stem
NetStem ==
    /\ npc = "built"
    /\ \E h \in 1..MaxNetHW :
          /\ act' = <<stem.out_channels, Half(h), Half(h)>>
          /\ trace' = <<[mod |-> "stem", stage |-> 0 - 1, block |-> 0 - 1,
                         inp |-> <<stem.in_channels, h, h>>,
                         outp |-> <<stem.out_channels, Half(h), Half(h)>>]>>
    /\ si' = 0
    /\ bi' = 0
    /\ mi' = 0
    /\ npc' = "stages"
    /\ UNCHANGED <<buildvars, flowvars, netargs, netself, netfwd>>

\* MMGbLcBlock.forward: the next sub-module of block bi of stage si
NetBlockStep ==
    /\ npc = "stages"
    /\ si < Len(stages.v)
    /\ bi < Len(stages.v[si + 1].blocks)
    /\ LET b == stages.v[si + 1].blocks[bi + 1]
           m == BlockOrder[mi + 1]
           expect == IF m = "mb_conv" THEN b.mb_conv.in_channels
                     ELSE IF m = "block_transformer" THEN b.block_transformer.in_channels
                     ELSE b.grid_transformer.in_channels
       IN IF act[1] # expect
          THEN /\ npc' = "RuntimeError"
               /\ UNCHANGED <<act, si, bi, mi, trace>>
          ELSE /\ act' = ApplyModule(b, m, act)
               /\ trace' = Append(trace, [mod |-> m, stage |-> si, block |-> bi,
                                          inp |-> act, outp |-> ApplyModule(b, m, act)])
               /\ mi' = IF mi = 2 THEN 0 ELSE mi + 1
               /\ bi' = IF mi = 2 THEN bi + 1 ELSE bi
               /\ UNCHANGED <<npc, si>>
    /\ UNCHANGED <<buildvars, flowvars, netargs, netself, netfwd>>

\* MMGbLc.forward_features: the loop moves on to the next stage
NetNextStage ==
    /\ npc = "stages"
    /\ si < Len(stages.v)
    /\ bi = Len(stages.v[si + 1].blocks)
    /\ si' = si + 1
    /\ bi' = 0
    /\ UNCHANGED <<buildvars, flowvars, netargs, netself, netfwd, npc, act, mi, trace>>

\* MMGbLc.forward_head: global pooling, then the head
NetHead ==
    /\ npc = "stages"
    /\ si = Len(stages.v)
    /\ LET pooled == IF global_pool.v \in {"avg", "max"} THEN <<act[1]>> ELSE act
           res == IF head.kind = "Identity" THEN pooled
                  ELSE SubSeq(pooled, 1, Len(pooled) - 1) \o <<head.out_features>>
       IN IF head.kind = "Linear" /\ pooled[Len(pooled)] # head.in_features
          THEN /\ npc' = "RuntimeError"
               /\ trace' = Append(trace, [mod |-> "pool", stage |-> si, block |-> 0,
                                          inp |-> act, outp |-> pooled])
               /\ act' = pooled
          ELSE /\ npc' = "done"
               /\ trace' = trace \o
                     <<[mod |-> "pool", stage |-> si, block |-> 0, inp |-> act, outp |-> pooled],
                       [mod |-> "head", stage |-> si, block |-> 0, inp |-> pooled,
                        outp |-> res]>>
               /\ act' = res
    /\ UNCHANGED <<buildvars, flowvars, netargs, netself, netfwd, si, bi, mi>>

\* MMGbLc.reset_classifier(nc, gp); gp = "None" is the default argument
NetReset ==
    /\ npc = "built"
    /\ \E nc \in 0..MaxClasses, gp \in {"None", "avg", "max", "sum"} :
          /\ num_classes' = [set |-> TRUE, v |-> nc]
          /\ global_pool' = IF gp # "None" THEN [set |-> TRUE, v |-> gp] ELSE global_pool
          /\ IF nc > 0
             THEN IF num_features.set
                  THEN /\ head' = Linear(num_features.v, nc)
                       /\ last_reset' = [called |-> TRUE, num_classes |-> nc,
                                         global_pool |-> gp, err |-> "none"]
                  ELSE /\ UNCHANGED head
                       /\ last_reset' = [called |-> TRUE, num_classes |-> nc,
                                         global_pool |-> gp, err |-> "AttributeError"]
             ELSE /\ head' = Identity
                  /\ last_reset' = [called |-> TRUE, num_classes |-> nc,
                                    global_pool |-> gp, err |-> "none"]
    /\ UNCHANGED <<buildvars, flowvars, netargs, npc, stem, stages, modules,
                   act, si, bi, mi, trace, nwd>>

\* MMGbLc.no_weight_decay()
NetNoWeightDecay ==
    /\ npc = "built"
    /\ nwd' = [set |-> TRUE, v |-> no_weight_decay(modules, stages, head)]
    /\ UNCHANGED <<buildvars, flowvars, netargs, netself, npc, act, si, bi, mi, trace,
                   last_reset>>

callvars == <<x, x_in, logpx, classify, idx, out, f, class_outs, calls, gins,
              gouts, result, zs, z_prev, logpz, iresult>>
fwdvars == <<x, x_in, logpx, classify, idx, out, f, class_outs, gins, gouts, result>>
fwdvars_noidx == <<x, x_in, logpx, classify, out, f, class_outs, gins, gouts, result>>
invvars == <<zs, z_prev, logpz, iresult>>
selfvars == <<input_size, n_blocks, factor_out, classification, n_scale,
              transforms, dims, classification_heads>>

\* MMGbLcFlow.__init__
Construct ==
    /\ pc = "new"
    /\ LET ns == Min(Len(n_blocks), _calc_n_scale(input_size))
       IN /\ n_scale' = ns
          /\ IF ~(ns > 0)
             THEN /\ pc' = "ValueError"
                  /\ UNCHANGED <<transforms, dims, classification_heads>>
             ELSE /\ pc' = "built"
                  /\ transforms' = [set |-> TRUE, v |-> _build_net(input_size, ns, n_blocks, factor_out)]
                  /\ dims' = [set |-> TRUE, v |-> calc_output_size(input_size, ns, factor_out)]
                  /\ classification_heads' =
                        IF classification
                        THEN [set |-> TRUE, v |-> build_multiscale_classifier(input_size, ns, factor_out)]
                        ELSE classification_heads
    /\ UNCHANGED <<buildvars, netvars, input_size, n_blocks, factor_out, classification, callvars>>

\* the value forward returns: output = out if logpx is None else (out, logpx),
\* then (output, logits) if classify else output
ForwardReturnNoBare(flat, lp, cl, heads) ==
    [done |-> TRUE, out |-> flat, haslogp |-> TRUE, logp |-> lp.val,
     haslogits |-> cl, logits |-> heads]

ForwardReturn(flat, lp, cl, heads) ==
    [done |-> TRUE, out |-> flat, haslogp |-> lp.given, logp |-> lp.val,
     haslogits |-> cl, logits |-> heads]

\* first index of the loops of inverse: the last transform group
InvFirstIdx(n) == n - 1

\* MMGbLcFlow.forward(x, logpx, inverse=False, classify): entry
ForwardCall ==
    /\ pc = "built"
    /\ \E lp \in BOOLEAN, cl \in BOOLEAN, seed \in 0..MaxSeed :
          /\ x' = InputTensor(input_size, seed)
          /\ x_in' = InputTensor(input_size, seed)
          /\ logpx' = [given |-> lp, val |-> 0]
          /\ classify' = cl
    /\ idx' = 0
    /\ out' = <<>>
    /\ class_outs' = <<>>
    /\ pc' = "fwd"
    /\ UNCHANGED <<buildvars, netvars, selfvars, f, calls, gins, gouts, result, invvars>>

\* MMGbLcFlow.forward: one iteration of the loop over self.transforms
ForwardStep ==
    /\ pc = "fwd"
    /\ idx < Len(transforms.v)
    /\ LET g == transforms.v[idx + 1]
           last == Len(transforms.v) - 1
           oddsq == g.squeeze /\ (x.shape[2] % 2 # 0 \/ x.shape[3] % 2 # 0)
           y == GroupForward(g, idx + 1, x)
           split == factor_out /\ (idx < last)
           d == y.shape[1] \div 2
           nx == IF split THEN ChanLow(y, d) ELSE y
           nf == IF split THEN [set |-> TRUE, v |-> ChanHigh(y, d)] ELSE f
           hin == IF factor_out THEN nf.v ELSE nx
       IN /\ calls' = Append(calls, [grp |-> idx, dir |-> "forward", lp |-> logpx.given])
          /\ gins' = Append(gins, x.shape)
          /\ IF oddsq
             THEN /\ pc' = "RuntimeError"
                  /\ UNCHANGED <<x, logpx, idx, out, f, class_outs, gouts>>
             ELSE /\ gouts' = Append(gouts, y)
                  /\ x' = nx
                  /\ f' = nf
                  /\ logpx' = IF logpx.given THEN GroupLogp(idx + 1, logpx) ELSE logpx
                  /\ out' = IF split THEN Append(out, nf.v) ELSE out
                  /\ idx' = idx + 1
                  /\ IF ~classify
                     THEN pc' = "fwd" /\ UNCHANGED class_outs
                     ELSE IF ~classification_heads.set
                     THEN pc' = "AttributeError" /\ UNCHANGED class_outs
                     ELSE IF factor_out /\ ~nf.set
                     THEN pc' = "UnboundLocalError" /\ UNCHANGED class_outs
                     ELSE IF hin.shape[1] # classification_heads.v[idx + 1]
                     THEN pc' = "RuntimeError" /\ UNCHANGED class_outs
                     ELSE /\ pc' = "fwd"
                          /\ class_outs' = Append(class_outs, [head |-> idx, input |-> hin])
    /\ UNCHANGED <<buildvars, netvars, selfvars, x_in, classify, result, invvars>>

\* MMGbLcFlow.forward: after the loop
ForwardFinish ==
    /\ pc = "fwd"
    /\ idx = Len(transforms.v)
    /\ out' = Append(out, x)
    /\ result' = ForwardReturn(Flatten(Append(out, x)), logpx, classify,
                               [i \in 1..Len(class_outs) |-> class_outs[i].head])
    /\ pc' = "fwd_done"
    /\ UNCHANGED <<buildvars, netvars, selfvars, x, x_in, logpx, classify, idx, f, class_outs, calls,
                   gins, gouts, invvars>>

RECURSIVE CutLoop(_, _, _)
CutLoop(z, ds, i) ==
    IF ds = <<>> THEN <<>>
    ELSE LET s == Prod(Head(ds))
         IN <<[shape |-> Head(ds), data |-> SubSeq(z, i + 1, Min(i + s, Len(z)))]>>
            \o CutLoop(z, Tail(ds), i + s)

\* MMGbLcFlow.inverse(z, logpz): entry, cutting z into the per-scale pieces
InverseCall ==
    /\ pc = "fwd_done"
    /\ \E lp \in BOOLEAN : logpz' = [given |-> lp, val |-> result.logp]
    /\ LET z == result.out
           cut == CutLoop(z, dims.v, 0)
           lastd == dims.v[Len(dims.v)]
       IN IF factor_out
          THEN /\ zs' = cut
               /\ z_prev' = NoTensor
               /\ pc' = IF \A i \in 1..Len(cut) : Len(cut[i].data) = Prod(cut[i].shape)
                        THEN "inv" ELSE "RuntimeError"
          ELSE /\ zs' = <<>>
               /\ z_prev' = [shape |-> lastd, data |-> z]
               /\ pc' = IF Len(z) = Prod(lastd) THEN "inv" ELSE "RuntimeError"
    /\ idx' = InvFirstIdx(Len(transforms.v))
    /\ iresult' = NoResult
    /\ UNCHANGED <<buildvars, netvars, selfvars, x, x_in, logpx, classify, out, f, class_outs, calls,
                   gins, gouts, result>>

\* MMGbLcFlow.inverse: one group, from the last to the first
InverseStep ==
    /\ pc = "inv"
    /\ idx >= 0
    /\ LET g == transforms.v[idx + 1]
           last == Len(transforms.v) - 1
           zin == IF ~factor_out THEN z_prev
                  ELSE IF idx = last THEN zs[Len(zs)]
                  ELSE ChanCat(z_prev, zs[idx + 1])
       IN /\ z_prev' = GroupInverse(g, idx + 1, zin)
          /\ logpz' = IF logpz.given THEN GroupLogpInv(idx + 1, logpz) ELSE logpz
          /\ calls' = Append(calls, [grp |-> idx, dir |-> "inverse", lp |-> logpz.given])
    /\ idx' = idx - 1
    /\ UNCHANGED <<buildvars, netvars, pc, selfvars, fwdvars_noidx, zs, iresult>>

\* MMGbLcFlow.inverse: return
InverseFinish ==
    /\ pc = "inv"
    /\ idx < 0
    /\ iresult' = [done |-> TRUE, z |-> z_prev, haslogp |-> logpz.given, logp |-> logpz.val]
    /\ pc' = "inv_done"
    /\ UNCHANGED <<buildvars, netvars, selfvars, fwdvars, calls, zs, z_prev, logpz>>

Next ==
    \/ Construct
    \/ ForwardCall
    \/ ForwardStep
    \/ ForwardFinish
    \/ InverseCall
    \/ InverseStep
    \/ InverseFinish
    \/ NetConstruct
    \/ NetStem
    \/ NetBlockStep
    \/ NetNextStage
    \/ NetHead
    \/ NetReset
    \/ NetNoWeightDecay
    \/ BuildFlow
    \/ BuildGroup
    \/ BuildDone

Spec == Init /\ [][Next]_vars

\* ------------------------------------------------------------ properties
Built == pc \notin {"off", "new", "ValueError"}

\* h and w are divisible by 2^(n_scale - 1)
Divisible ==
    /\ input_size[3] % Pow(2, n_scale - 1) = 0
    /\ input_size[4] % Pow(2, n_scale - 1) = 0

CallsOf(d) == SelectSeq(calls, LAMBDA r : r.dir = d)

\* C1: inverse(forward(x)) = x; inverse cuts the flat latent into the pieces
\* forward emitted, in the same order, and runs the groups n-1 .. 0.
C1RoundTrip ==
    /\ (pc = "inv_done" => iresult.z = x_in)
    /\ (pc \in {"inv", "inv_done"} /\ factor_out => zs = out)
    /\ (pc = "inv_done" =>
          /\ Len(CallsOf("inverse")) = n_scale
          /\ \A k \in 1..n_scale : CallsOf("inverse")[k].grp = n_scale - k)

C1Witness ==
    /\ pc = "inv_done"
    /\ factor_out
    /\ n_scale = 3
    /\ \A i \in 1..3 : transforms.v[i].n_blocks > 0 \/ i = 2
    /\ Len(x_in.data) >= 16

\* C2 (as stated): the accumulator passes through every group once, in order
\* 0..n-1 in forward and n-1..0 in inverse, and a pair is returned; without
\* an accumulator no group receives one and the result is never a pair.
C2Original ==
    /\ (pc = "fwd_done" =>
          /\ Len(CallsOf("forward")) = n_scale
          /\ \A k \in 1..n_scale :
                CallsOf("forward")[k] = [grp |-> k - 1, dir |-> "forward", lp |-> logpx.given]
          /\ (result.haslogp \/ result.haslogits) = logpx.given)
    /\ (pc = "inv_done" =>
          /\ \A k \in 1..n_scale :
                CallsOf("inverse")[k] = [grp |-> n_scale - k, dir |-> "inverse", lp |-> logpz.given]
          /\ iresult.haslogp = logpz.given)

\* C2 (amended): as above, where the value built from the accumulator is
\* output = (out, logpx) or the bare out; forward returns output itself when
\* classify is false and the pair (output, logits) when classify is true.
C2Accumulator ==
    /\ (pc = "fwd_done" =>
          /\ Len(CallsOf("forward")) = n_scale
          /\ \A k \in 1..n_scale :
                CallsOf("forward")[k] = [grp |-> k - 1, dir |-> "forward", lp |-> logpx.given]
          /\ result.haslogp = logpx.given
          /\ result.haslogits = classify
          /\ (logpx.given => result.logp = 0 - ((n_scale * (n_scale + 1)) \div 2)))
    /\ (pc = "inv_done" =>
          /\ Len(CallsOf("inverse")) = n_scale
          /\ \A k \in 1..n_scale :
                CallsOf("inverse")[k] = [grp |-> n_scale - k, dir |-> "inverse", lp |-> logpz.given]
          /\ iresult.haslogp = logpz.given
          /\ (logpz.given => iresult.logp = result.logp + ((n_scale * (n_scale + 1)) \div 2)))

C2Witness ==
    /\ pc = "inv_done"
    /\ n_scale = 3
    /\ result.haslogp
    /\ result.haslogits
    /\ iresult.haslogp

\* C3 (as stated): for every input size that construction accepts the element
\* counts of self.dims sum to c*h*w.
C3Original ==
    Built => SumProd(dims.v) = input_size[2] * input_size[3] * input_size[4]

\* C3 (amended): the counts sum to c*h*w when h and w are divisible by
\* 2^(n_scale-1); dims has n_scale entries with factor_out and otherwise the
\* single entry (c*4^k, h//2^k, w//2^k), k = n_scale-1; inverse consumes the
\* whole flat latent of a forward pass.
C3DimsConserve ==
    /\ (Built /\ Divisible =>
          SumProd(dims.v) = input_size[2] * input_size[3] * input_size[4])
    /\ (Built /\ factor_out => Len(dims.v) = n_scale)
    /\ (Built /\ ~factor_out =>
          dims.v = <<<<input_size[2] * Pow(4, n_scale - 1),
                      input_size[3] \div Pow(2, n_scale - 1),
                      input_size[4] \div Pow(2, n_scale - 1)>>>>)
    /\ (pc = "inv" /\ factor_out => Len(Flatten(zs)) = Len(result.out))
    /\ (pc = "inv" /\ ~factor_out /\ idx = n_scale - 1 => Len(z_prev.data) = Len(result.out))

C3Witness ==
    /\ pc = "inv"
    /\ factor_out
    /\ n_scale = 3
    /\ Len(zs) = 3
    /\ idx = 1

\* C4: with h and w divisible by 2^(n_scale-1) every group is built with the
\* shape of the tensor that reaches it in forward, the next group's shape has
\* 2x (factor_out) or 4x channels and half the height and width, and piece i
\* of forward has shape dims[i].
C4ShapesAgree ==
    Built /\ Divisible =>
        /\ \A i \in 1..Len(gins) : gins[i] = transforms.v[i].initial_size
        /\ \A i \in 1..Len(gouts) :
              i < n_scale =>
                  /\ gouts[i].shape = <<4 * gins[i][1], gins[i][2] \div 2, gins[i][3] \div 2>>
                  /\ transforms.v[i + 1].initial_size =
                        <<(IF factor_out THEN 2 ELSE 4) * gins[i][1],
                          gins[i][2] \div 2, gins[i][3] \div 2>>
        /\ (pc = "fwd_done" =>
              /\ Len(out) = Len(dims.v)
              /\ \A i \in 1..Len(out) :
                    out[i].shape = dims.v[i] /\ Len(out[i].data) = Prod(dims.v[i]))

C4Witness ==
    /\ pc = "fwd_done"
    /\ factor_out
    /\ n_scale = 3
    /\ Len(gins) = 3

\* C5: construction raises ValueError exactly when n_scale is not positive,
\* which is exactly when n_blocks is empty or h < 4 or w < 4, and then
\* nothing has been built.
C5ValueError ==
    pc \notin {"off", "new"} =>
        /\ (pc = "ValueError") = ~(n_scale > 0)
        /\ (pc = "ValueError") =
              (Len(n_blocks) = 0 \/ input_size[3] < 4 \/ input_size[4] < 4)
        /\ n_scale = Min(Len(n_blocks), _calc_n_scale(input_size))
        /\ (pc = "ValueError" =>
              ~transforms.set /\ ~dims.set /\ ~classification_heads.set)
        /\ (pc # "ValueError" => transforms.set /\ dims.set)

C5Witness ==
    /\ pc = "ValueError"
    /\ Len(n_blocks) > 0
    /\ input_size[3] >= 4
    /\ input_size[4] < 4

\* C7: with classification heads built, forward(x, classify=True) completes
\* and head idx is applied, for every scale idx, to a tensor produced by
\* group idx of the same pass, with the channel count the head was built for.
C7Classify ==
    classification /\ classify =>
        /\ pc # "UnboundLocalError"
        /\ (pc = "fwd_done" =>
              /\ Len(class_outs) = n_scale
              /\ \A i \in 1..Len(class_outs) :
                    /\ class_outs[i].head = i - 1
                    /\ class_outs[i].input.shape[1] = classification_heads.v[i]
                    /\ LET g == gouts[i]
                           d == g.shape[1] \div 2
                       IN class_outs[i].input \in
                            IF factor_out /\ i < n_scale THEN {ChanHigh(g, d)}
                            ELSE IF factor_out THEN {g, ChanLow(g, d), ChanHigh(g, d)}
                            ELSE {g})

NetBuilt == npc \in {"built", "stages", "done", "RuntimeError"}

BlockMods == {"mb_conv", "block_transformer", "grid_transformer"}

\* the sub-module applications recorded for stage s (0-based)
StageTrace(s) == SelectSeq(trace, LAMBDA r : r.stage = s /\ r.mod \in BlockMods)

\* C6: MMGbLc construction fails with an assertion error, before stem, stages
\* or head exist, exactly when len(depths) # len(channels) or global_pool is
\* neither 'avg' nor 'max'.
C6AssertFailFast ==
    npc \notin {"off", "new"} =>
        /\ (npc = "AssertionError") =
              (Len(depths) # Len(channels) \/ gp_arg \notin {"avg", "max"})
        /\ (npc = "AssertionError" => ~stem.set /\ ~stages.set /\ ~head.set)
        /\ (npc # "AssertionError" => stem.set /\ stages.set)

C6Witness ==
    /\ npc = "AssertionError"
    /\ Len(depths) = Len(channels)
    /\ Len(depths) > 0
    /\ gp_arg = "sum"

\* C8: a stage of depth d has exactly d blocks, applied in index order; block 0
\* alone is built with downscale and with the stage's in_channels, every later
\* block has in_channels = out_channels = the stage's out_channels.
C8StageBlocks ==
    stages.set =>
        \A s \in 1..Len(stages.v) :
            LET st == stages.v[s]
            IN /\ Len(st.blocks) = depths[s]
               /\ \A k \in 1..Len(st.blocks) :
                     /\ st.blocks[k].downscale = (k = 1)
                     /\ st.blocks[k].out_channels = st.out_channels
                     /\ st.blocks[k].in_channels =
                           (IF k = 1 THEN st.in_channels ELSE st.out_channels)
               /\ \A j \in 1..Len(StageTrace(s - 1)) :
                     StageTrace(s - 1)[j].block = (j - 1) \div 3
               /\ (npc = "done" => Len(StageTrace(s - 1)) = 3 * depths[s])

C8Witness ==
    /\ npc = "done"
    /\ \E s \in 1..Len(stages.v) :
          /\ depths[s] = 2
          /\ stages.v[s].in_channels # stages.v[s].out_channels

\* C9: a block applies MBConv, then block (window) attention, then grid
\* attention, each once and each on the previous one's output; both attention
\* passes are built on out_channels, only the MBConv gets in_channels and the
\* downscale flag.
C9BlockOrder ==
    stages.set =>
        \A s \in 1..Len(stages.v) :
            /\ \A k \in 1..Len(stages.v[s].blocks) :
                  LET b == stages.v[s].blocks[k]
                  IN /\ b.mb_conv = [in_channels |-> b.in_channels,
                                     out_channels |-> b.out_channels,
                                     downscale |-> b.downscale]
                     /\ b.block_transformer = [in_channels |-> b.out_channels, partition |-> "window"]
                     /\ b.grid_transformer = [in_channels |-> b.out_channels, partition |-> "grid"]
            /\ \A j \in 1..Len(StageTrace(s - 1)) :
                  LET t == StageTrace(s - 1)
                  IN /\ t[j].mod = <<"mb_conv", "block_transformer", "grid_transformer">>[((j - 1) % 3) + 1]
                     /\ ((j - 1) % 3 # 0 =>
                           t[j].inp = t[j - 1].outp /\ t[j].block = t[j - 1].block)

C9Witness ==
    /\ npc = "done"
    /\ \E s \in 1..Len(stages.v) :
          /\ Len(StageTrace(s - 1)) = 6
          /\ stages.v[s].in_channels # stages.v[s].out_channels

\* the network part of C10: stem first, stage i takes embed_dim / channels[i-1]
\* and gives channels[i], pooling leaves (channels[-1]), the head gives
\* (num_classes)
NetShapes ==
    /\ npc # "RuntimeError"
    /\ (npc \in {"stages", "done"} =>
          /\ trace[1].mod = "stem"
          /\ \A j \in 2..Len(trace) :
                /\ trace[j].mod # "stem"
                /\ trace[j].inp = trace[j - 1].outp
                /\ trace[j].stage >= trace[j - 1].stage
          /\ \A s \in 1..Len(stages.v) :
                LET t == StageTrace(s - 1)
                IN /\ (Len(t) > 0 =>
                         t[1].inp[1] = (IF s = 1 THEN embed_dim ELSE channels[s - 1]))
                   /\ (s - 1 < si /\ Len(t) > 0 => t[Len(t)].outp[1] = channels[s]))
    /\ (npc = "done" =>
          /\ act = <<num_classes.v>>
          /\ trace[Len(trace)].mod = "head"
          /\ trace[Len(trace)].inp = <<channels[Len(channels)]>>
          /\ trace[Len(trace) - 1].mod = "pool"
          /\ Len(trace[Len(trace) - 1].inp) = 3)

\* C10 (as stated): forward returns (batch, num_classes) for every constructed
\* network.
C10Original == NetBuilt => NetShapes

\* C10 (amended): the same for every network as constructed (no
\* reset_classifier call yet) whose stages all have depth >= 1.
C10ForwardShape ==
    NetBuilt /\ ~last_reset.called /\ (\A k \in 1..Len(depths) : depths[k] >= 1) => NetShapes

C10Witness ==
    /\ npc = "done"
    /\ ~last_reset.called
    /\ Len(depths) = 2
    /\ \A k \in 1..2 : depths[k] >= 1
    /\ channels[1] # channels[2]
    /\ embed_dim # channels[1]

\* C11: a constructed flow has n_scale = min(len(n_blocks), scale count)
\* groups; group i has n_blocks[i] blocks, every group but the last squeezes,
\* and only group 0 is handed the init_layer.
C11Groups ==
    Built =>
        /\ Len(transforms.v) = n_scale
        /\ n_scale = Min(Len(n_blocks), _calc_n_scale(input_size))
        /\ n_scale <= Len(n_blocks)
        /\ \A i \in 1..Len(transforms.v) :
              /\ transforms.v[i].n_blocks = n_blocks[i]
              /\ transforms.v[i].squeeze = (i < n_scale)
              /\ transforms.v[i].init_layer = (i = 1)

C11Witness ==
    /\ pc = "built"
    /\ n_scale = 3
    /\ Len(n_blocks) = 3
    /\ n_blocks[1] # n_blocks[2]

\* ---------------------------------------------------------------- chains
IsBlock(l) == l.kind = "block"

BlocksOf(chain) == SelectSeq(chain, IsBlock)

BuildDoneOk == bpc = "done"

\* C12: with fc_end the last group (which does not squeeze) has its n_blocks
\* regular blocks followed by four fully connected end blocks, for both block
\* types; a squeezing group ends with the squeeze layer and has no end block.
C12FourFcEnd ==
    BuildDoneOk =>
        \A i \in 1..Len(b_transforms) :
            LET t == b_transforms[i]
                bl == BlocksOf(t.chain)
            IN IF t.args.squeeze
               THEN /\ t.chain[Len(t.chain)].kind = "squeeze"
                    /\ \A j \in 1..Len(bl) : ~bl[j].end
               ELSE bargs.fc_end =>
                    /\ Len(bl) = t.args.n_blocks + 4
                    /\ \A j \in 1..Len(bl) :
                          bl[j].end = (j > t.args.n_blocks) /\ (bl[j].end => bl[j].fc)

\* the construction of a StackedMMGbLcBlocks group has been entered
StackTried ==
    /\ bargs.block_type = "mmgblcblock"
    /\ \/ bpc \in {"AssertionError", "IndexError", "done"}
       \/ bpc = "ValueError" /\ b_n_scale > 0
       \/ bpc = "groups" /\ b_i > 0

LengthsDiffer == Len(bargs.vnorms) - 1 # SplitCount(bargs.kernels)

AssertedEmpty == bpc = "AssertionError" /\ b_chain = <<>> /\ b_transforms = <<>>

ReadsInRange ==
    /\ bpc # "IndexError"
    /\ \A i \in 1..Len(b_transforms) :
          \A j \in 1..Len(b_transforms[i].reads) : InRange(b_transforms[i].reads[j])

\* C13 as stated: whenever len(vnorms) - 1 differs from the number of kernels
\* entries the construction fails with an assertion error on an empty chain, and
\* when the lengths agree every index read is in range.
C13Original ==
    StackTried =>
        /\ LengthsDiffer => AssertedEmpty
        /\ ~LengthsDiffer => ReadsInRange

\* C13: the same for a vnorms made of 'f' and digits only (any other character
\* makes float(p) raise ValueError before the assertion is reached).
C13AssertBeforeChain ==
    StackTried /\ VnormsParseOk(bargs.vnorms) =>
        /\ LengthsDiffer => AssertedEmpty
        /\ ~LengthsDiffer => ReadsInRange

C13Witness ==
    /\ bpc = "AssertionError"
    /\ Len(bargs.vnorms) = 4
    /\ SplitCount(bargs.kernels) = 2
    /\ b_chain = <<>>

\* C17: in every StackedCouplingBlocks group the first coupling block has
\* swap = False (mask suffix '0') and every later coupling block, convolutional
\* or fully connected, has the opposite swap of the block created before it.
C17SwapAlternates ==
    bargs.block_type = "coupling" =>
        \A i \in 1..Len(b_transforms) :
            LET bl == BlocksOf(b_transforms[i].chain)
            IN \A j \in 1..Len(bl) :
                  /\ bl[j].swap \in {"0", "1"}
                  /\ j = 1 => bl[j].swap = "0"
                  /\ j > 1 => bl[j].swap # bl[j - 1].swap
                  /\ ~bl[j].fc => bl[j].mask \in {"channel" \o bl[j].swap,
                                                  "checkerboard" \o bl[j].swap}

C17Witness ==
    /\ bpc = "done"
    /\ bargs.block_type = "coupling"
    /\ Len(b_transforms) = 2
    /\ LET bl == BlocksOf(b_transforms[2].chain)
       IN /\ Len(bl) = 5
          /\ ~bl[1].fc
          /\ bl[2].fc
          /\ bl[5].swap = "0"

\* C18: a flow built with first_mmgblcblock, n_blocks[0] >= 1 and fc = False has
\* exactly one block built with the first-block flag, block 0 of group 0 (which
\* therefore has no pre-activation), for both block types and any n_scale.
C18OneFirstBlock ==
    BuildDoneOk /\ bargs.first_mmgblcblock /\ bargs.n_blocks[1] >= 1 /\ ~bargs.fc =>
        \A i \in 1..Len(b_transforms) :
            LET bl == BlocksOf(b_transforms[i].chain)
            IN \A j \in 1..Len(bl) :
                  /\ bl[j].first = (i = 1 /\ j = 1)
                  /\ bl[j].preact = (bargs.preact /\ ~(i = 1 /\ j = 1))

\* C14: after construction and any reset_classifier calls global_pool is 'avg'
\* or 'max', and forward_head reduces the two spatial dimensions before the head.
C14PoolValid ==
    /\ global_pool.set => global_pool.v \in {"avg", "max"}
    /\ npc = "done" => Len(trace[Len(trace) - 1].outp) = 1

\* C15: reset_classifier(num_classes) completes without error, sets
\* self.num_classes, makes the head Linear(channels[-1], num_classes) for
\* num_classes > 0 and an identity otherwise, and leaves stem and stages alone.
C15ResetHead ==
    last_reset.called =>
        /\ last_reset.err = "none"
        /\ num_classes = [set |-> TRUE, v |-> last_reset.num_classes]
        /\ head = (IF last_reset.num_classes > 0
                   THEN Linear(channels[Len(channels)], last_reset.num_classes)
                   ELSE Identity)
        /\ stem = [set |-> TRUE, in_channels |-> in_channels, out_channels |-> embed_dim]
        /\ Len(stages.v) = Len(depths)

\* C16: every stage is a registered sub-module, named_parameters enumerates
\* every parameter of the network, and no_weight_decay returns exactly the
\* names that contain 'relative_position_bias_table'.
C16AllRegistered ==
    NetBuilt =>
        /\ "stages" \in modules
        /\ named_parameters(modules, stages, head) = AllParams(stages, head)
        /\ nwd.set =>
              nwd.v = {n \in AllParams(stages, head) : n.param = "relative_position_bias_table"}

====
